---- MODULE Spec2Model ----
(***************************************************************************)
(* Model of the ChatBot dialogue engine of src/src/chatbot.cpp:            *)
(*   - ComputeLevenshteinDistance, the approximate string matcher;         *)
(*   - ReceiveMessageFromUser, the selection of the next node;             *)
(*   - SetCurrentNode, the arrival at a node and the emission of an answer;*)
(*   - the constructors, the destructor and the copy and move operations   *)
(*     of ChatBot, with the heap objects they allocate and delete.         *)
(* Strings are sequences of ASCII codes.  The answer graph is built once   *)
(* by the loader and is read-only afterwards.                              *)
(***************************************************************************)
EXTENDS Integers, Sequences, FiniteSets

(***************************************************************************)
(* Bounds of the model.                                                    *)
(***************************************************************************)
\* longest string handed to the matcher in SpecLev
MaxLen == 3
\* largest number of child edges of a node
MaxEdges == 2
\* largest number of answers of a node
MaxAnswers == 2
\* largest number of wxBitmap objects the ChatBot operations allocate
MaxImages == 3
\* largest number of copy operations (each allocates two GraphNode objects)
MaxCopies == 1

\* 'A', 'a', 'b': one letter in both cases and a second letter
Alphabet == {65, 97, 98}

RECURSIVE StringsOfLen(_)
StringsOfLen(n) ==
    IF n = 0 THEN {<<>>}
    ELSE {Append(s, c) : s \in StringsOfLen(n - 1), c \in Alphabet}

Strings == UNION {StringsOfLen(n) : n \in 0..MaxLen}

\* "kitten", "sitting", "Cat", "cAT", "cat"
Kitten == <<107, 105, 116, 116, 101, 110>>
Sitting == <<115, 105, 116, 116, 105, 110, 103>>
Cat == <<67, 97, 116>>
cAT == <<99, 65, 84>>
LowerCat == <<99, 97, 116>>
Examples == {Kitten, Sitting, Cat, cAT, LowerCat}

\* the strings the matcher is applied to in SpecLev
LevInputs == Strings \cup Examples

(***************************************************************************)
(* The answer graph (GraphNode, GraphEdge) and the engines.                *)
(***************************************************************************)
Nodes == {"n0", "n1"}
\* the node the loader designates as root
Root == "n0"
\* a null GraphNode pointer
NullNode == "nullptr"
\* a GraphNode pointer that was never written: ChatBot() and
\* ChatBot(filename) leave _currentNode without a value
Indeterminate == "indeterminate"

\* the GraphNode objects `new GraphNode(id)` can return, in allocation order
HeapOrder == <<"h1", "h2", "h3", "h4">>
HeapNodes == {HeapOrder[k] : k \in 1..Len(HeapOrder)}
AllNodes == Nodes \cup HeapNodes
\* nodeId of a GraphNode that is not allocated
NoId == "none"

\* the wxBitmap objects `new wxBitmap(...)` can return, in allocation order
ImageOrder == <<"img1", "img2", "img3", "img4">>
Images == {ImageOrder[k] : k \in 1..Len(ImageOrder)}
\* a null wxBitmap pointer (NULL)
NullImage == "NULL"

\* the ChatLogic object of the application, and a null ChatLogic pointer
TheChatLogic == "chatLogic"
NullLogic == "nullptr"

\* "a" and "Ba"
Keywords == {<<97>>, <<66, 97>>}
\* the keyword lists an edge may carry (a Transition with no keyword is legal)
KeywordLists == {<<>>, <<<<97>>>>, <<<<66, 97>>>>, <<<<97>>, <<66, 97>>>>}

Edges == [keywords : KeywordLists, childNode : Nodes]
EdgeLists == UNION {[1..n -> Edges] : n \in 0..MaxEdges}

\* the answers of node n: the texts <<n, 1>> .. <<n, k>>
AnswerList(n, k) == [i \in 1..k |-> <<n, i>>]
\* a node has no answer, one answer or MaxAnswers answers
AnswerCounts == {0, 1, MaxAnswers}

\* user messages: "", "A", "b", "ba", "bb"
Messages == {<<>>, <<65>>, <<98>>, <<98, 97>>, <<98, 98>>}

\* the user messages of SpecRuleOfFive: "A", "bb"
FewMessages == {<<65>>, <<98, 98>>}

Engines == {"A", "B"}

\* how std::sort orders elements that compare equal in this build
TiePolicies == {"stable", "reversed"}

\* the matcher has not been called yet (its result r is held as <<r>>)
NoResult == <<>>

VARIABLES
    answers,        \* GraphNode::_answers of every node
    childEdges,     \* GraphNode::_childEdges of every node, in construction order
    sortTie,        \* the build's order of equal elements in std::sort
    _currentNode,   \* ChatBot::_currentNode of every engine
    _rootNode,      \* ChatBot::_rootNode of every engine
    lastFrom,       \* node the engine's last turn started from (NullNode: no turn yet)
    lastMsg,        \* message of the engine's last turn
    lastEdge,       \* index of the child edge the last turn selected (0: none)
    sent,           \* calls of SendMessageToUser made by the engine's last turn or entry
    outcome,        \* "ok", or how an operation on the engine crashed or threw
    _image,         \* ChatBot::_image of every engine
    _chatLogic,     \* ChatBot::_chatLogic of every engine
    live,           \* the engine is constructed and not destroyed
    imageHeap,      \* every wxBitmap: "free", "allocated", "deleted", "deletedTwice"
    nodeId,         \* GraphNode::_id of every allocated GraphNode of HeapNodes
    lastOp,         \* the last operation, its engines and the handles before it
    ahead,          \* SpecTwoRuns: engine A has run a turn engine B has not
    levS1,          \* SpecLev: first argument of the last call of the matcher
    levS2,          \* SpecLev: its second argument
    levResult       \* SpecLev: its result

graphVars == <<answers, childEdges, sortTie>>
engineVars == <<_currentNode, _rootNode, lastFrom, lastMsg, lastEdge, sent, outcome>>
handleVars == <<_image, _chatLogic, live>>
heapVars == <<imageHeap, nodeId>>
levVars == <<levS1, levS2, levResult>>
vars == <<graphVars, engineVars, handleVars, heapVars, lastOp, ahead, levVars>>

(***************************************************************************)
(* ComputeLevenshteinDistance (chatbot.cpp:194-242).                       *)
(***************************************************************************)
\* a matcher that compares without folding the case
toupperIdentity(c) == c

\* ::toupper in the C locale
toupper(c) == IF c >= 97 /\ c <= 122 THEN c - 32 ELSE c

\* std::transform(s.begin(), s.end(), s.begin(), ::toupper)
ToUpperString(s) == [i \in 1..Len(s) |-> toupper(s[i])]

\* an inner loop that leaves out the left neighbour costs[j]
RECURSIVE InnerLoopNoLeft(_, _, _, _, _)
InnerLoopNoLeft(costs, c1, s2, j, corner) ==
    IF j = Len(s2) THEN costs
    ELSE LET upper == costs[j + 2]
             t == IF upper < corner THEN upper ELSE corner
             cell == IF c1 = s2[j + 1] THEN corner ELSE t + 1
         IN  InnerLoopNoLeft([costs EXCEPT ![j + 2] = cell], c1, s2, j + 1, upper)

\* an inner loop that never advances corner
RECURSIVE InnerLoopStaleCorner(_, _, _, _, _)
InnerLoopStaleCorner(costs, c1, s2, j, corner) ==
    IF j = Len(s2) THEN costs
    ELSE LET upper == costs[j + 2]
             t == IF upper < corner THEN upper ELSE corner
             cell == IF c1 = s2[j + 1]
                     THEN corner
                     ELSE (IF costs[j + 1] < t THEN costs[j + 1] ELSE t) + 1
         IN  InnerLoopStaleCorner([costs EXCEPT ![j + 2] = cell], c1, s2, j + 1, corner)

\* The inner for-loop over s2 for one character c1 of s1.  costs is the
\* rolling row (costs[k] of the code is costs[k + 1] here), j the loop counter.
RECURSIVE InnerLoop(_, _, _, _, _)
InnerLoop(costs, c1, s2, j, corner) ==
    IF j = Len(s2) THEN costs
    ELSE LET upper == costs[j + 2]
             t == IF upper < corner THEN upper ELSE corner
             cell == IF c1 = s2[j + 1]
                     THEN corner
                     ELSE (IF costs[j + 1] < t THEN costs[j + 1] ELSE t) + 1
         IN  InnerLoop([costs EXCEPT ![j + 2] = cell], c1, s2, j + 1, upper)

\* The outer for-loop over s1: costs[0] = i + 1, corner = i, then the inner loop.
RECURSIVE OuterLoop(_, _, _, _)
OuterLoop(costs, s1, s2, i) ==
    IF i = Len(s1) THEN costs
    ELSE OuterLoop(InnerLoop([costs EXCEPT ![1] = i + 1], s1[i + 1], s2, 0, i),
                   s1, s2, i + 1)

\* a matcher whose first early return gives m instead of n
ComputeLevenshteinDistanceReturnsM(a, b) ==
    LET s1 == ToUpperString(a)
        s2 == ToUpperString(b)
        m == Len(s1)
        n == Len(s2)
    IN  IF m = 0 THEN m
        ELSE IF n = 0 THEN m
        ELSE OuterLoop([k \in 1..(n + 1) |-> k - 1], s1, s2, 0)[n + 1]

ComputeLevenshteinDistance(a, b) ==
    LET s1 == ToUpperString(a)
        s2 == ToUpperString(b)
        m == Len(s1)
        n == Len(s2)
    IN  IF m = 0 THEN n
        ELSE IF n = 0 THEN m
        ELSE OuterLoop([k \in 1..(n + 1) |-> k - 1], s1, s2, 0)[n + 1]

(***************************************************************************)
(* ReceiveMessageFromUser (chatbot.cpp:145-177).                           *)
(***************************************************************************)
\* loops that score an edge without keyword once, against the empty string
RECURSIVE CollectLevDistsScoresEmpty(_, _, _)
CollectLevDistsScoresEmpty(edges, i, message) ==
    IF i > Len(edges) THEN <<>>
    ELSE (IF Len(edges[i].keywords) = 0
          THEN <<[first |-> i, second |-> ComputeLevenshteinDistance(<<>>, message)]>>
          ELSE [k \in 1..Len(edges[i].keywords) |->
                   [first |-> i,
                    second |-> ComputeLevenshteinDistance(edges[i].keywords[k], message)]])
         \o CollectLevDistsScoresEmpty(edges, i + 1, message)

\* The loops over the child edges and their keywords: one pair <edge, distance>
\* per keyword, in enumeration order.  first is the index of the edge.
RECURSIVE CollectLevDists(_, _, _)
CollectLevDists(edges, i, message) ==
    IF i > Len(edges) THEN <<>>
    ELSE [k \in 1..Len(edges[i].keywords) |->
             [first |-> i,
              second |-> ComputeLevenshteinDistance(edges[i].keywords[k], message)]]
         \o CollectLevDists(edges, i + 1, message)

\* a comparator that orders by descending distance
LessDescending(a, b) == a.second > b.second

\* the comparator handed to std::sort
Less(a, b) == a.second < b.second

\* a and b are equivalent for std::sort: neither is less than the other
Equivalent(a, b) == ~Less(a, b) /\ ~Less(b, a)

\* std::sort leaves the order of equivalent elements unspecified.  A build
\* fixes it: equivalent elements keep their order ("stable") or come out in
\* the reverse order ("reversed").
SortsBefore(s, p, q, tie) ==
    \/ Less(s[p], s[q])
    \/ /\ Equivalent(s[p], s[q])
       /\ IF tie = "stable" THEN p < q ELSE q < p

\* the element at place k of the result is the one that k - 1 elements
\* sort before
StdSort(s, tie) ==
    [k \in 1..Len(s) |->
        s[CHOOSE p \in 1..Len(s) :
            Cardinality({q \in 1..Len(s) : SortsBefore(s, q, p, tie)}) = k - 1]]

(***************************************************************************)
(* The handles of an engine and the heap.                                  *)
(***************************************************************************)
\* the four data handles of engine e
Handles(e) ==
    [image |-> _image[e], currentNode |-> _currentNode[e],
     rootNode |-> _rootNode[e], chatLogic |-> _chatLogic[e]]

\* the record of an operation on engine t with source s (t itself when the
\* operation has no source), and the handles of s before it acts
Op(name, t, s) ==
    [op |-> name, target |-> t, source |-> s, before |-> Handles(s)]

\* the GraphNode objects that exist: the loaded graph and the allocated copies
AllocatedNodes == Nodes \cup {h \in HeapNodes : nodeId[h] # NoId}

\* GraphNode::GetID
GetID(n) == IF n \in Nodes THEN n ELSE nodeId[n]

\* The values a read of the pointer p yields.  A pointer that was never
\* written holds whatever its storage held: the address of any GraphNode
\* that exists, or an address that cannot be dereferenced.
Deref(p) == IF p = Indeterminate THEN AllocatedNodes \cup {NullNode} ELSE {p}

(***************************************************************************)
(* SetCurrentNode (chatbot.cpp:179-192).                                   *)
(***************************************************************************)
\* What the draw from uniform_int_distribution<int>(0, -1) and the following
\* answers.at() end in when the node has no answer (undefined behaviour):
\* libstdc++ recurses until the stack overflows, libstdc++ with
\* _GLIBCXX_ASSERTIONS aborts on a <= b, libc++ returns an index and
\* answers.at() throws std::out_of_range.
EmptyDrawOutcomes == {"segfault", "abort", "out_of_range"}

\* a SetCurrentNode that sends the answer before it updates the pointer
SetCurrentNodeSendsFirst(e, node) ==
    /\ _currentNode' = [_currentNode EXCEPT ![e] = node]
    /\ IF node \notin AllNodes
       THEN /\ outcome' = [outcome EXCEPT ![e] = "segfault"]
            /\ sent' = [sent EXCEPT ![e] = <<>>]
       ELSE LET nodeAnswers == answers[_currentNode'[e]]
            IN  IF Len(nodeAnswers) = 0
                THEN /\ \E o \in EmptyDrawOutcomes :
                            outcome' = [outcome EXCEPT ![e] = o]
                     /\ sent' = [sent EXCEPT ![e] = <<>>]
                ELSE IF _chatLogic'[e] = NullLogic
                THEN /\ outcome' = [outcome EXCEPT ![e] = "segfault"]
                     /\ sent' = [sent EXCEPT ![e] = <<>>]
                ELSE /\ \E idx \in 0..(Len(nodeAnswers) - 1) :
                            sent' = [sent EXCEPT ![e] =
                                        <<[text |-> nodeAnswers[idx + 1],
                                           at |-> _currentNode[e]]>>]
                     /\ outcome' = [outcome EXCEPT ![e] = "ok"]

\* a SetCurrentNode whose pointer is shared by all engines (a static member)
SetCurrentNodeMovesAll(e, node) ==
    /\ _currentNode' = [x \in Engines |-> node]
    /\ IF node \notin AllNodes
       THEN /\ outcome' = [outcome EXCEPT ![e] = "segfault"]
            /\ sent' = [sent EXCEPT ![e] = <<>>]
       ELSE LET nodeAnswers == answers[_currentNode'[e]]
            IN  IF Len(nodeAnswers) = 0
                THEN /\ \E o \in EmptyDrawOutcomes :
                            outcome' = [outcome EXCEPT ![e] = o]
                     /\ sent' = [sent EXCEPT ![e] = <<>>]
                ELSE IF _chatLogic'[e] = NullLogic
                THEN /\ outcome' = [outcome EXCEPT ![e] = "segfault"]
                     /\ sent' = [sent EXCEPT ![e] = <<>>]
                ELSE \E idx \in 0..(Len(nodeAnswers) - 1) :
                        IF idx >= Len(nodeAnswers)
                        THEN /\ outcome' = [outcome EXCEPT ![e] = "out_of_range"]
                             /\ sent' = [sent EXCEPT ![e] = <<>>]
                        ELSE /\ sent' = [sent EXCEPT ![e] =
                                            <<[text |-> nodeAnswers[idx + 1],
                                               at |-> _currentNode'[e]]>>]
                             /\ outcome' = [outcome EXCEPT ![e] = "ok"]

\* a SetCurrentNode that draws the index from 0..answers.size()
SetCurrentNodeDrawsPastEnd(e, node) ==
    /\ _currentNode' = [_currentNode EXCEPT ![e] = node]
    /\ IF node \notin AllNodes
       THEN /\ outcome' = [outcome EXCEPT ![e] = "segfault"]
            /\ sent' = [sent EXCEPT ![e] = <<>>]
       ELSE LET nodeAnswers == answers[_currentNode'[e]]
            IN  IF Len(nodeAnswers) = 0
                THEN /\ \E o \in EmptyDrawOutcomes :
                            outcome' = [outcome EXCEPT ![e] = o]
                     /\ sent' = [sent EXCEPT ![e] = <<>>]
                ELSE IF _chatLogic'[e] = NullLogic
                THEN /\ outcome' = [outcome EXCEPT ![e] = "segfault"]
                     /\ sent' = [sent EXCEPT ![e] = <<>>]
                ELSE \E idx \in 0..Len(nodeAnswers) :
                        IF idx >= Len(nodeAnswers)
                        THEN /\ outcome' = [outcome EXCEPT ![e] = "out_of_range"]
                             /\ sent' = [sent EXCEPT ![e] = <<>>]
                        ELSE /\ sent' = [sent EXCEPT ![e] =
                                            <<[text |-> nodeAnswers[idx + 1],
                                               at |-> _currentNode'[e]]>>]
                             /\ outcome' = [outcome EXCEPT ![e] = "ok"]

\* The pointer is updated, then an answer of the node is drawn and sent.  A
\* call of SendMessageToUser is recorded with the text and with the value
\* _currentNode has when the call is made.  GetAnswers on a null node and
\* SendMessageToUser on a null _chatLogic dereference a null pointer.
\* (chatbot.cpp:182, 185-188, 191)
SetCurrentNode(e, node) ==
    /\ _currentNode' = [_currentNode EXCEPT ![e] = node]
    /\ IF node \notin AllNodes
       THEN /\ outcome' = [outcome EXCEPT ![e] = "segfault"]
            /\ sent' = [sent EXCEPT ![e] = <<>>]
       ELSE LET nodeAnswers == answers[_currentNode'[e]]
            IN  IF Len(nodeAnswers) = 0
                THEN /\ \E o \in EmptyDrawOutcomes :
                            outcome' = [outcome EXCEPT ![e] = o]
                     /\ sent' = [sent EXCEPT ![e] = <<>>]
                ELSE IF _chatLogic'[e] = NullLogic
                THEN /\ outcome' = [outcome EXCEPT ![e] = "segfault"]
                     /\ sent' = [sent EXCEPT ![e] = <<>>]
                ELSE /\ \E idx \in 0..(Len(nodeAnswers) - 1) :
                            sent' = [sent EXCEPT ![e] =
                                        <<[text |-> nodeAnswers[idx + 1],
                                           at |-> _currentNode'[e]]>>]
                     /\ outcome' = [outcome EXCEPT ![e] = "ok"]

\* GraphNode::MoveChatbotToNewNode: the engine arrives at newNode
MoveChatbotToNewNode(e, newNode) == SetCurrentNode(e, newNode)

\* no operation has crashed or thrown: the driver goes on calling the engines
Running == \A e \in Engines : outcome[e] = "ok"

\* engine e has run a turn
HasTurn(e) == lastFrom[e] # NullNode

\* engine e has arrived at a node
Arrived(e) == _currentNode[e] \in AllNodes

\* a turn whose edge is drawn at random instead of taken from the sorted list
ReceiveMessageFromUserRandomEdge(e, message) ==
    /\ lastOp' = Op("receive", e, e)
    /\ UNCHANGED <<_rootNode, graphVars, handleVars, heapVars, levVars>>
    /\ \E cur \in Deref(_currentNode[e]) :
          IF cur \notin AllNodes
          THEN /\ outcome' = [outcome EXCEPT ![e] = "segfault"]
               /\ sent' = [sent EXCEPT ![e] = <<>>]
               /\ UNCHANGED <<_currentNode, lastFrom, lastMsg, lastEdge>>
          ELSE /\ \E levDists \in {CollectLevDists(childEdges[cur], 1, message)} :
                  \E best \in (IF Len(levDists) > 0
                               THEN {levDists[k].first : k \in 1..Len(levDists)}
                               ELSE {0}) :
                     /\ lastEdge' = [lastEdge EXCEPT ![e] = best]
                     /\ MoveChatbotToNewNode(e, IF best # 0
                                                THEN childEdges[cur][best].childNode
                                                ELSE _rootNode[e])
               /\ lastFrom' = [lastFrom EXCEPT ![e] = cur]
               /\ lastMsg' = [lastMsg EXCEPT ![e] = message]

\* a turn that stays at the current node when there is no pair
ReceiveMessageFromUserStays(e, message) ==
    /\ lastOp' = Op("receive", e, e)
    /\ UNCHANGED <<_rootNode, graphVars, handleVars, heapVars, levVars>>
    /\ \E cur \in Deref(_currentNode[e]) :
          IF cur \notin AllNodes
          THEN /\ outcome' = [outcome EXCEPT ![e] = "segfault"]
               /\ sent' = [sent EXCEPT ![e] = <<>>]
               /\ UNCHANGED <<_currentNode, lastFrom, lastMsg, lastEdge>>
          ELSE /\ \E levDists \in {CollectLevDists(childEdges[cur], 1, message)} :
                  \E best \in {IF Len(levDists) > 0
                               THEN StdSort(levDists, sortTie)[1].first
                               ELSE 0} :
                     /\ lastEdge' = [lastEdge EXCEPT ![e] = best]
                     /\ MoveChatbotToNewNode(e, IF best # 0
                                                THEN childEdges[cur][best].childNode
                                                ELSE cur)
               /\ lastFrom' = [lastFrom EXCEPT ![e] = cur]
               /\ lastMsg' = [lastMsg EXCEPT ![e] = message]

\* a turn without the else branch: newNode is null when there is no pair
ReceiveMessageFromUserNoFallback(e, message) ==
    /\ lastOp' = Op("receive", e, e)
    /\ UNCHANGED <<_rootNode, graphVars, handleVars, heapVars, levVars>>
    /\ \E cur \in Deref(_currentNode[e]) :
          IF cur \notin AllNodes
          THEN /\ outcome' = [outcome EXCEPT ![e] = "segfault"]
               /\ sent' = [sent EXCEPT ![e] = <<>>]
               /\ UNCHANGED <<_currentNode, lastFrom, lastMsg, lastEdge>>
          ELSE /\ \E levDists \in {CollectLevDists(childEdges[cur], 1, message)} :
                  \E best \in {IF Len(levDists) > 0
                               THEN StdSort(levDists, sortTie)[1].first
                               ELSE 0} :
                     /\ lastEdge' = [lastEdge EXCEPT ![e] = best]
                     /\ MoveChatbotToNewNode(e, IF best # 0
                                                THEN childEdges[cur][best].childNode
                                                ELSE NullNode)
               /\ lastFrom' = [lastFrom EXCEPT ![e] = cur]
               /\ lastMsg' = [lastMsg EXCEPT ![e] = message]

\* One turn of engine e.  cur is the node _currentNode points to (line 151
\* dereferences it), levDists the list of pairs, best the edge of the pair at
\* the front of the sorted list (0 when the list is empty).
\* (chatbot.cpp:145-177)
ReceiveMessageFromUser(e, message) ==
    /\ lastOp' = Op("receive", e, e)
    /\ UNCHANGED <<_rootNode, graphVars, handleVars, heapVars, levVars>>
    /\ \E cur \in Deref(_currentNode[e]) :
          IF cur \notin AllNodes
          THEN /\ outcome' = [outcome EXCEPT ![e] = "segfault"]
               /\ sent' = [sent EXCEPT ![e] = <<>>]
               /\ UNCHANGED <<_currentNode, lastFrom, lastMsg, lastEdge>>
          ELSE /\ \E levDists \in {CollectLevDists(childEdges[cur], 1, message)} :
                  \E best \in {IF Len(levDists) > 0
                               THEN StdSort(levDists, sortTie)[1].first
                               ELSE 0} :
                     /\ lastEdge' = [lastEdge EXCEPT ![e] = best]
                     /\ MoveChatbotToNewNode(e, IF best # 0
                                                THEN childEdges[cur][best].childNode
                                                ELSE _rootNode[e])
               /\ lastFrom' = [lastFrom EXCEPT ![e] = cur]
               /\ lastMsg' = [lastMsg EXCEPT ![e] = message]

\* The loader hands the engine the ChatLogic and the root node, and the
\* engine enters the root.
InitializeAtRoot(e) ==
    /\ lastOp' = Op("initialize", e, e)
    /\ _rootNode' = [_rootNode EXCEPT ![e] = Root]
    /\ _chatLogic' = [_chatLogic EXCEPT ![e] = TheChatLogic]
    /\ SetCurrentNode(e, Root)
    /\ UNCHANGED <<lastFrom, lastMsg, lastEdge, _image, live, graphVars, heapVars, levVars>>

(***************************************************************************)
(* Construction, destruction, copy and move (chatbot.cpp:12-143).          *)
(***************************************************************************)
\* the number of wxBitmap objects allocated so far
ImagesUsed == Cardinality({i \in Images : imageHeap[i] # "free"})
\* the number of GraphNode objects allocated so far
NodesUsed == Cardinality({h \in HeapNodes : nodeId[h] # NoId})

\* what the next `new wxBitmap` and the next k-th `new GraphNode` return
NewImage == ImageOrder[ImagesUsed + 1]
NewNode(k) == HeapOrder[NodesUsed + k]

\* the heap of the model has room for one more image, for one more copy
CanAllocateImage == ImagesUsed < MaxImages
CanAllocateNodes == NodesUsed + 2 <= 2 * MaxCopies

\* ChatBot(): the three handles are invalidated, _currentNode is not written
ChatBotDefault(t) ==
    /\ lastOp' = Op("ChatBot()", t, t)
    /\ _image' = [_image EXCEPT ![t] = NullImage]
    /\ _chatLogic' = [_chatLogic EXCEPT ![t] = NullLogic]
    /\ _rootNode' = [_rootNode EXCEPT ![t] = NullNode]
    /\ live' = [live EXCEPT ![t] = TRUE]
    /\ UNCHANGED <<_currentNode, lastFrom, lastMsg, lastEdge, sent, outcome,
                   heapVars, graphVars, levVars>>

\* ChatBot(filename): as ChatBot(), and the image is loaded into the heap
ChatBotFromFile(t) ==
    /\ lastOp' = Op("ChatBot(filename)", t, t)
    /\ _chatLogic' = [_chatLogic EXCEPT ![t] = NullLogic]
    /\ _rootNode' = [_rootNode EXCEPT ![t] = NullNode]
    /\ _image' = [_image EXCEPT ![t] = NewImage]
    /\ imageHeap' = [imageHeap EXCEPT ![NewImage] = "allocated"]
    /\ live' = [live EXCEPT ![t] = TRUE]
    /\ UNCHANGED <<_currentNode, lastFrom, lastMsg, lastEdge, sent, outcome,
                   nodeId, graphVars, levVars>>

\* ~ChatBot(): the image is deleted when the handle is not NULL.  The storage
\* of the instance is released: its members hold no value any more, and the
\* record of its last turn is dropped.
Destructor(t) ==
    /\ lastOp' = Op("~ChatBot()", t, t)
    /\ IF _image[t] # NullImage
       THEN imageHeap' = [imageHeap EXCEPT ![_image[t]] =
                             IF @ = "allocated" THEN "deleted" ELSE "deletedTwice"]
       ELSE UNCHANGED imageHeap
    /\ _image' = [_image EXCEPT ![t] = NullImage]
    /\ _currentNode' = [_currentNode EXCEPT ![t] = Indeterminate]
    /\ _rootNode' = [_rootNode EXCEPT ![t] = NullNode]
    /\ _chatLogic' = [_chatLogic EXCEPT ![t] = NullLogic]
    /\ lastFrom' = [lastFrom EXCEPT ![t] = NullNode]
    /\ lastMsg' = [lastMsg EXCEPT ![t] = <<>>]
    /\ lastEdge' = [lastEdge EXCEPT ![t] = 0]
    /\ sent' = [sent EXCEPT ![t] = <<>>]
    /\ live' = [live EXCEPT ![t] = FALSE]
    /\ UNCHANGED <<outcome, nodeId, graphVars, levVars>>

\* ChatBot(const ChatBot &source): a new image copied from *source._image,
\* two new GraphNodes with the ids of the source's current and root node, and
\* the source's _chatLogic.  *source._image, source._currentNode->GetID()
\* and source._rootNode->GetID() dereference the source's handles; on a null
\* handle the process ends there, and the call gives the target nothing.
CopyConstructor(t, s) ==
    /\ lastOp' = Op("copy constructor", t, s)
    /\ \E cur \in Deref(_currentNode[s]) :
          IF _image[s] = NullImage \/ cur \notin AllNodes \/ _rootNode[s] \notin AllNodes
          THEN /\ outcome' = [outcome EXCEPT ![t] = "segfault"]
               /\ UNCHANGED <<_image, _currentNode, _rootNode, _chatLogic, live, heapVars>>
          ELSE /\ _image' = [_image EXCEPT ![t] = NewImage]
               /\ imageHeap' = [imageHeap EXCEPT ![NewImage] = "allocated"]
               /\ _currentNode' = [_currentNode EXCEPT ![t] = NewNode(1)]
               /\ _rootNode' = [_rootNode EXCEPT ![t] = NewNode(2)]
               /\ nodeId' = [nodeId EXCEPT ![NewNode(1)] = GetID(cur),
                                            ![NewNode(2)] = GetID(_rootNode[s])]
               /\ _chatLogic' = [_chatLogic EXCEPT ![t] = _chatLogic[s]]
               /\ live' = [live EXCEPT ![t] = TRUE]
               /\ UNCHANGED outcome
    /\ UNCHANGED <<lastFrom, lastMsg, lastEdge, sent, graphVars, levVars>>

\* operator=(const ChatBot &source) past the self-assignment test: the same
\* statements as the copy constructor; the handles the target held are
\* overwritten.
CopyAssignmentBody(t, s) ==
    /\ lastOp' = Op("copy assignment", t, s)
    /\ \E cur \in Deref(_currentNode[s]) :
          IF _image[s] = NullImage \/ cur \notin AllNodes \/ _rootNode[s] \notin AllNodes
          THEN /\ outcome' = [outcome EXCEPT ![t] = "segfault"]
               /\ UNCHANGED <<_image, _currentNode, _rootNode, _chatLogic, heapVars>>
          ELSE /\ _image' = [_image EXCEPT ![t] = NewImage]
               /\ imageHeap' = [imageHeap EXCEPT ![NewImage] = "allocated"]
               /\ _currentNode' = [_currentNode EXCEPT ![t] = NewNode(1)]
               /\ _rootNode' = [_rootNode EXCEPT ![t] = NewNode(2)]
               /\ nodeId' = [nodeId EXCEPT ![NewNode(1)] = GetID(cur),
                                            ![NewNode(2)] = GetID(_rootNode[s])]
               /\ _chatLogic' = [_chatLogic EXCEPT ![t] = _chatLogic[s]]
               /\ UNCHANGED outcome
    /\ UNCHANGED <<lastFrom, lastMsg, lastEdge, sent, live, graphVars, levVars>>

\* operator=(const ChatBot &source)
CopyAssignment(t, s) ==
    IF t = s
    THEN /\ lastOp' = Op("copy assignment", t, s)
         /\ UNCHANGED <<engineVars, handleVars, heapVars, graphVars, levVars>>
    ELSE CopyAssignmentBody(t, s)

\* a move constructor that invalidates the image handle of the source only
MoveConstructorLeavesSource(t, s) ==
    /\ lastOp' = Op("move constructor", t, s)
    /\ _image' = [_image EXCEPT ![t] = _image[s], ![s] = NullImage]
    /\ _currentNode' = [_currentNode EXCEPT ![t] = _currentNode[s]]
    /\ _rootNode' = [_rootNode EXCEPT ![t] = _rootNode[s]]
    /\ _chatLogic' = [_chatLogic EXCEPT ![t] = _chatLogic[s]]
    /\ live' = [live EXCEPT ![t] = TRUE]
    /\ UNCHANGED <<lastFrom, lastMsg, lastEdge, sent, outcome, heapVars, graphVars, levVars>>

\* ChatBot(ChatBot &&source): the four handles go to the target and are
\* invalidated in the source.
MoveConstructor(t, s) ==
    /\ lastOp' = Op("move constructor", t, s)
    /\ _image' = [_image EXCEPT ![t] = _image[s], ![s] = NullImage]
    /\ _currentNode' = [_currentNode EXCEPT ![t] = _currentNode[s], ![s] = NullNode]
    /\ _rootNode' = [_rootNode EXCEPT ![t] = _rootNode[s], ![s] = NullNode]
    /\ _chatLogic' = [_chatLogic EXCEPT ![t] = _chatLogic[s], ![s] = NullLogic]
    /\ live' = [live EXCEPT ![t] = TRUE]
    /\ UNCHANGED <<lastFrom, lastMsg, lastEdge, sent, outcome, heapVars, graphVars, levVars>>

\* a move assignment that does not invalidate the image handle of the source
MoveAssignmentBodyKeepsImage(t, s) ==
    /\ lastOp' = Op("move assignment", t, s)
    /\ _image' = [_image EXCEPT ![t] = _image[s]]
    /\ _currentNode' = [_currentNode EXCEPT ![t] = _currentNode[s], ![s] = NullNode]
    /\ _rootNode' = [_rootNode EXCEPT ![t] = _rootNode[s], ![s] = NullNode]
    /\ _chatLogic' = [_chatLogic EXCEPT ![t] = _chatLogic[s], ![s] = NullLogic]
    /\ UNCHANGED <<lastFrom, lastMsg, lastEdge, sent, outcome, live, heapVars, graphVars, levVars>>

\* operator=(ChatBot &&source) past the self-assignment test: the same
\* statements as the move constructor; the handles the target held are
\* overwritten.
MoveAssignmentBody(t, s) ==
    /\ lastOp' = Op("move assignment", t, s)
    /\ _image' = [_image EXCEPT ![t] = _image[s], ![s] = NullImage]
    /\ _currentNode' = [_currentNode EXCEPT ![t] = _currentNode[s], ![s] = NullNode]
    /\ _rootNode' = [_rootNode EXCEPT ![t] = _rootNode[s], ![s] = NullNode]
    /\ _chatLogic' = [_chatLogic EXCEPT ![t] = _chatLogic[s], ![s] = NullLogic]
    /\ UNCHANGED <<lastFrom, lastMsg, lastEdge, sent, outcome, live, heapVars, graphVars, levVars>>

\* operator=(ChatBot &&source)
MoveAssignment(t, s) ==
    IF t = s
    THEN /\ lastOp' = Op("move assignment", t, s)
         /\ UNCHANGED <<engineVars, handleVars, heapVars, graphVars, levVars>>
    ELSE MoveAssignmentBody(t, s)

(***************************************************************************)
(* SpecLev: the matcher applied to every pair of LevInputs.                *)
(***************************************************************************)
\* SpecLev runs no engine: an empty graph
GraphIdle ==
    /\ answers = [n \in AllNodes |-> <<>>]
    /\ childEdges = [n \in AllNodes |-> <<>>]
    /\ sortTie = "stable"

\* nothing is allocated
HeapIdle ==
    /\ imageHeap = [i \in Images |-> "free"]
    /\ nodeId = [h \in HeapNodes |-> NoId]

\* the handles ChatBot() sets, and the _currentNode it leaves unset
DefaultHandles ==
    [image |-> NullImage, currentNode |-> Indeterminate,
     rootNode |-> NullNode, chatLogic |-> NullLogic]

\* no operation yet
NoOp ==
    [op |-> "none", target |-> "none", source |-> "none",
     before |-> DefaultHandles]

\* The engines as ChatBot() constructs them: handles invalidated,
\* _currentNode left unset, nothing entered or sent.
EnginesIdle ==
    /\ _currentNode = [e \in Engines |-> Indeterminate]
    /\ _rootNode = [e \in Engines |-> NullNode]
    /\ _image = [e \in Engines |-> NullImage]
    /\ _chatLogic = [e \in Engines |-> NullLogic]
    /\ live = [e \in Engines |-> TRUE]
    /\ lastOp = NoOp
    /\ lastFrom = [e \in Engines |-> NullNode]
    /\ lastMsg = [e \in Engines |-> <<>>]
    /\ lastEdge = [e \in Engines |-> 0]
    /\ sent = [e \in Engines |-> <<>>]
    /\ outcome = [e \in Engines |-> "ok"]
    /\ ahead = FALSE

LevIdle ==
    /\ levS1 = <<>>
    /\ levS2 = <<>>
    /\ levResult = NoResult

\* the two arguments are drawn from LevInputs; the call is still to be made
InitLev ==
    /\ GraphIdle
    /\ HeapIdle
    /\ EnginesIdle
    /\ levS1 \in LevInputs
    /\ levS2 \in LevInputs
    /\ levResult = NoResult

CallLevenshtein ==
    /\ levResult = NoResult
    /\ levResult' = <<ComputeLevenshteinDistance(levS1, levS2)>>
    /\ UNCHANGED <<graphVars, engineVars, handleVars, heapVars, lastOp, ahead, levS1, levS2>>

NextLev == CallLevenshtein

SpecLev == InitLev /\ [][NextLev]_vars

(***************************************************************************)
(* Spec: one engine on every graph of the bounds.  The root carries the    *)
(* child edges, the other nodes are leaves.  A GraphNode made by            *)
(* `new GraphNode(id)` has no child edge and no answer.                    *)
(***************************************************************************)
Init ==
    /\ answers \in {[n \in AllNodes |-> IF n \in Nodes THEN AnswerList(n, k[n]) ELSE <<>>] :
                        k \in [Nodes -> AnswerCounts]}
    /\ childEdges \in {[n \in AllNodes |-> IF n = Root THEN l ELSE <<>>] : l \in EdgeLists}
    /\ sortTie \in TiePolicies
    /\ HeapIdle
    /\ EnginesIdle
    /\ LevIdle

\* the loader initialises the engine once
Start ==
    /\ Running
    /\ ~Arrived("A")
    /\ InitializeAtRoot("A")
    /\ UNCHANGED ahead

\* the driver hands a user message to the initialised engine
Turn ==
    /\ Running
    /\ Arrived("A")
    /\ \E m \in Messages : ReceiveMessageFromUser("A", m)
    /\ UNCHANGED ahead

Next == Start \/ Turn

Spec == Init /\ [][Next]_vars

(***************************************************************************)
(* SpecTwoRuns: two engines on the same graph in the same build, each      *)
(* initialised at the root.  Engine A runs a turn, engine B runs the same  *)
(* turn: same node, same message.  Every node has MaxAnswers answers, so   *)
(* that both runs return and draw among several answers.                   *)
(***************************************************************************)
InitTwoRuns ==
    /\ answers = [n \in AllNodes |-> IF n \in Nodes THEN AnswerList(n, MaxAnswers) ELSE <<>>]
    /\ childEdges \in {[n \in AllNodes |-> IF n = Root THEN l ELSE <<>>] : l \in EdgeLists}
    /\ sortTie \in TiePolicies
    /\ HeapIdle
    /\ EnginesIdle
    /\ LevIdle

StartBoth ==
    /\ Running
    /\ \E e \in Engines : ~Arrived(e) /\ InitializeAtRoot(e)
    /\ UNCHANGED ahead

FirstRun ==
    /\ Running
    /\ ~ahead
    /\ ~HasTurn("A")
    /\ \A e \in Engines : Arrived(e)
    /\ \E m \in Messages : ReceiveMessageFromUser("A", m)
    /\ ahead' = TRUE

SecondRun ==
    /\ Running
    /\ ahead
    /\ _currentNode["B"] = lastFrom["A"]
    /\ ReceiveMessageFromUser("B", lastMsg["A"])
    /\ ahead' = FALSE

NextTwoRuns == StartBoth \/ FirstRun \/ SecondRun

SpecTwoRuns == InitTwoRuns /\ [][NextTwoRuns]_vars

(***************************************************************************)
(* SpecRuleOfFive: two ChatBot instances on one loaded graph.  The storage *)
(* of an instance is constructed by any of the four constructors,          *)
(* destroyed, and constructed again; the loader enters an instance at the  *)
(* root; instances are copied and moved into each other.                   *)
(* SpecCopyTurn: the same two instances, constructed once, never           *)
(* destroyed; the driver hands messages to any constructed instance.       *)
(***************************************************************************)
\* root n0 with one answer and the edge "a" to the leaf n1 with one answer
GraphLoaded ==
    /\ answers = [n \in AllNodes |-> IF n \in Nodes THEN AnswerList(n, 1) ELSE <<>>]
    /\ childEdges = [n \in AllNodes |->
                        IF n = Root
                        THEN <<[keywords |-> <<<<97>>>>, childNode |-> "n1"]>>
                        ELSE <<>>]
    /\ sortTie = "stable"

\* the storage of the engines before any constructor has run
EnginesUnconstructed ==
    /\ _currentNode = [e \in Engines |-> Indeterminate]
    /\ _rootNode = [e \in Engines |-> NullNode]
    /\ _image = [e \in Engines |-> NullImage]
    /\ _chatLogic = [e \in Engines |-> NullLogic]
    /\ live = [e \in Engines |-> FALSE]
    /\ lastOp = NoOp
    /\ lastFrom = [e \in Engines |-> NullNode]
    /\ lastMsg = [e \in Engines |-> <<>>]
    /\ lastEdge = [e \in Engines |-> 0]
    /\ sent = [e \in Engines |-> <<>>]
    /\ outcome = [e \in Engines |-> "ok"]
    /\ ahead = FALSE

InitRuleOfFive ==
    /\ GraphLoaded
    /\ HeapIdle
    /\ EnginesUnconstructed
    /\ LevIdle

Construct ==
    /\ Running
    /\ \E t \in Engines : ~live[t] /\ ChatBotDefault(t)
    /\ UNCHANGED ahead

ConstructFromFile ==
    /\ Running
    /\ CanAllocateImage
    /\ \E t \in Engines : ~live[t] /\ ChatBotFromFile(t)
    /\ UNCHANGED ahead

Destroy ==
    /\ Running
    /\ \E t \in Engines : live[t] /\ Destructor(t)
    /\ UNCHANGED ahead

Enter ==
    /\ Running
    /\ \E t \in Engines : live[t] /\ ~Arrived(t) /\ InitializeAtRoot(t)
    /\ UNCHANGED ahead

CopyConstruct ==
    /\ Running
    /\ CanAllocateImage /\ CanAllocateNodes
    /\ \E t \in Engines, s \in Engines :
          ~live[t] /\ live[s] /\ CopyConstructor(t, s)
    /\ UNCHANGED ahead

CopyAssign ==
    /\ Running
    /\ CanAllocateImage /\ CanAllocateNodes
    /\ \E t \in Engines, s \in Engines :
          live[t] /\ live[s] /\ CopyAssignment(t, s)
    /\ UNCHANGED ahead

MoveConstruct ==
    /\ Running
    /\ \E t \in Engines, s \in Engines :
          ~live[t] /\ live[s] /\ MoveConstructor(t, s)
    /\ UNCHANGED ahead

MoveAssign ==
    /\ Running
    /\ \E t \in Engines, s \in Engines :
          live[t] /\ live[s] /\ MoveAssignment(t, s)
    /\ UNCHANGED ahead

Receive ==
    /\ Running
    /\ \E t \in Engines, m \in FewMessages :
          live[t] /\ ReceiveMessageFromUser(t, m)
    /\ UNCHANGED ahead

NextRuleOfFive ==
    \/ Construct \/ ConstructFromFile \/ Destroy \/ Enter
    \/ CopyConstruct \/ CopyAssign \/ MoveConstruct \/ MoveAssign

SpecRuleOfFive == InitRuleOfFive /\ [][NextRuleOfFive]_vars

NextCopyTurn ==
    \/ Construct \/ ConstructFromFile \/ Enter
    \/ CopyConstruct \/ CopyAssign \/ MoveConstruct \/ MoveAssign
    \/ Receive

SpecCopyTurn == InitRuleOfFive /\ [][NextCopyTurn]_vars

(***************************************************************************)
(* Properties of the matcher, checked under SpecLev.                       *)
(***************************************************************************)
LevCalled == levResult # NoResult

\* case folding of the reference: upper-case ASCII letters to lower case
CaseFold(c) == IF c >= 65 /\ c <= 90 THEN c + 32 ELSE c
CaseFolded(s) == [i \in 1..Len(s) |-> CaseFold(s[i])]

Min3(x, y, z) ==
    LET xy == IF x < y THEN x ELSE y
    IN  IF xy < z THEN xy ELSE z

\* the full-matrix recurrence: D[i][j] for the prefixes a[1..i], b[1..j]
RECURSIVE EditMatrix(_, _, _, _)
EditMatrix(a, b, i, j) ==
    IF i = 0 THEN j
    ELSE IF j = 0 THEN i
    ELSE Min3(EditMatrix(a, b, i - 1, j) + 1,
              EditMatrix(a, b, i, j - 1) + 1,
              EditMatrix(a, b, i - 1, j - 1) + (IF a[i] = b[j] THEN 0 ELSE 1))

EditDistance(a, b) == EditMatrix(a, b, Len(a), Len(b))

\* a and b are the same string up to the case of their letters
DifferOnlyInCase(a, b) ==
    /\ Len(a) = Len(b)
    /\ \A i \in 1..Len(a) :
          \/ a[i] = b[i]
          \/ a[i] \in 65..90 /\ b[i] = a[i] + 32
          \/ b[i] \in 65..90 /\ a[i] = b[i] + 32

\* C5: ComputeLevenshteinDistance(a, b) is the Levenshtein edit distance of
\* the case-folded a and the case-folded b, as the full-matrix recurrence
\* computes it.
C5_LevenshteinIsEditDistance ==
    LevCalled => levResult[1] = EditDistance(CaseFolded(levS1), CaseFolded(levS2))

\* the call distance("kitten", "sitting") has answered 3
C5_Witness ==
    LevCalled /\ levS1 = Kitten /\ levS2 = Sitting /\ levResult[1] = 3

\* C6: the matcher is symmetric: the call with the arguments swapped gives
\* the same result, also when exactly one argument is empty.
C6_Symmetry ==
    LevCalled => levResult[1] = ComputeLevenshteinDistance(levS2, levS1)

\* a call with exactly one empty argument and two different results possible
C6_Witness ==
    LevCalled /\ levS1 = <<>> /\ Len(levS2) = 2 /\ levResult[1] = 2

\* C7: the distance of a string to itself is 0, and so is the distance of two
\* strings that differ only in the case of their letters.
C7_IdentityAndCase ==
    (LevCalled /\ (levS1 = levS2 \/ DifferOnlyInCase(levS1, levS2)))
        => levResult[1] = 0

\* the call distance("Cat", "cAT") has answered 0
C7_Witness ==
    LevCalled /\ levS1 = Cat /\ levS2 = cAT /\ levResult[1] = 0

\* C8: with one argument empty the distance is the length of the other.
C8_EmptyString ==
    LevCalled =>
        /\ levS1 = <<>> => levResult[1] = Len(levS2)
        /\ levS2 = <<>> => levResult[1] = Len(levS1)

\* the call distance("", "cat") has answered 3
C8_Witness ==
    LevCalled /\ levS1 = <<>> /\ levS2 = LowerCat /\ levResult[1] = 3

(***************************************************************************)
(* Properties of the engine, checked under Spec and SpecTwoRuns.           *)
(***************************************************************************)
\* the keyword positions <<i, k>> of node n: keyword k of child edge i
KeywordsOf(n) ==
    UNION {{<<i, k>> : k \in 1..Len(childEdges[n][i].keywords)} :
              i \in 1..Len(childEdges[n])}

\* the distance of keyword ik of node n to the message
DistanceOf(n, ik, message) ==
    ComputeLevenshteinDistance(childEdges[n][ik[1]].keywords[ik[2]], message)

\* ik is a keyword of node n no keyword of n is nearer to the message than
IsNearest(n, ik, message) ==
    \A other \in KeywordsOf(n) :
        DistanceOf(n, ik, message) <= DistanceOf(n, other, message)

\* ik comes before other in the enumeration: edge order, then keyword order
EnumeratedBefore(ik, other) ==
    ik[1] < other[1] \/ (ik[1] = other[1] /\ ik[2] < other[2])

\* C1: when the child edges of the current node carry a keyword, a turn moves
\* the engine along an edge that has a keyword of minimum distance to the
\* message, however large that distance is.
C1_MinimumDistance ==
    \A e \in Engines :
        (HasTurn(e) /\ KeywordsOf(lastFrom[e]) # {}) =>
            \E ik \in KeywordsOf(lastFrom[e]) :
                /\ IsNearest(lastFrom[e], ik, lastMsg[e])
                /\ lastEdge[e] = ik[1]
                /\ _currentNode[e] = childEdges[lastFrom[e]][ik[1]].childNode

\* a turn from the root with two edges of different distance, none of them an
\* exact match, has moved the engine to n1
C1_Witness ==
    /\ HasTurn("A")
    /\ lastFrom["A"] = Root
    /\ Len(childEdges[Root]) = 2
    /\ \A ik \in KeywordsOf(Root) : DistanceOf(Root, ik, lastMsg["A"]) >= 1
    /\ \E ik \in KeywordsOf(Root) : ~IsNearest(Root, ik, lastMsg["A"])
    /\ _currentNode["A"] = "n1"

\* C2: when keywords of two different child edges are both at minimum
\* distance, a turn selects the edge whose keyword was enumerated first.
C2_TieBreakStability ==
    \A e \in Engines :
        (HasTurn(e) /\ KeywordsOf(lastFrom[e]) # {}) =>
            \E ik \in KeywordsOf(lastFrom[e]) :
                /\ IsNearest(lastFrom[e], ik, lastMsg[e])
                /\ \A other \in KeywordsOf(lastFrom[e]) :
                      (IsNearest(lastFrom[e], other, lastMsg[e]) /\ other # ik)
                          => EnumeratedBefore(ik, other)
                /\ lastEdge[e] = ik[1]

\* C3: a turn from a node without child edges moves the engine to the root.
C3_FallbackToRoot ==
    \A e \in Engines :
        (HasTurn(e) /\ Len(childEdges[lastFrom[e]]) = 0) =>
            /\ lastEdge[e] = 0
            /\ _currentNode[e] = Root

\* a turn from the leaf n1 has moved the engine to the root
C3_Witness ==
    /\ HasTurn("A")
    /\ lastFrom["A"] = "n1"
    /\ Len(childEdges["n1"]) = 0
    /\ _currentNode["A"] = Root

Range(f) == {f[i] : i \in 1..Len(f)}

\* the last operation of engine e made exactly one call of the sink, after the
\* pointer was updated, with an answer of the node arrived at
OneAnswerOfCurrentNode(e) ==
    /\ outcome[e] = "ok"
    /\ Len(sent[e]) = 1
    /\ sent[e][1].at = _currentNode[e]
    /\ sent[e][1].text \in Range(answers[_currentNode[e]])

\* C9 as stated: every arrival at a node calls the sink exactly once, after
\* the pointer is updated, with an answer of the node arrived at.
C9_EveryArrivalEmits ==
    \A e \in Engines : Arrived(e) => OneAnswerOfCurrentNode(e)

\* C9 amended: every arrival at a node that has at least one answer calls the
\* sink exactly once, after the pointer is updated, with an answer of the
\* node arrived at.
C9_ArrivalWithAnswersEmits ==
    \A e \in Engines :
        (Arrived(e) /\ Len(answers[_currentNode[e]]) > 0)
            => OneAnswerOfCurrentNode(e)

\* a turn has moved the engine from the root to n1 and the second answer of
\* n1 was sent
C9_Witness ==
    /\ HasTurn("A")
    /\ lastFrom["A"] = Root
    /\ _currentNode["A"] = "n1"
    /\ sent["A"] = <<[text |-> <<"n1", 2>>, at |-> "n1"]>>

\* the outcomes that reach the caller as an error it can handle
SurfacedErrors == {"out_of_range"}

\* C10: an arrival at a node without answers ends in an error surfaced to
\* the caller, and nothing is sent.
C10_EmptyResponseSetIsError ==
    \A e \in Engines :
        (Arrived(e) /\ Len(answers[_currentNode[e]]) = 0) =>
            /\ outcome[e] \in SurfacedErrors
            /\ sent[e] = <<>>

(***************************************************************************)
(* Properties of construction, copy and move, checked under SpecRuleOfFive *)
(* and SpecCopyTurn.                                                       *)
(***************************************************************************)
\* the last operation was a turn of an engine that had no current node
TurnWithoutCurrentNode ==
    lastOp.op = "receive" /\ lastOp.before.currentNode \notin AllNodes

\* C11: a turn of an engine that has no current node (default-constructed or
\* moved-from) ends in an error surfaced to the caller, leaves the position
\* as it was and sends nothing.
C11_UninitializedEngineIsError ==
    TurnWithoutCurrentNode =>
        /\ outcome[lastOp.target] \in SurfacedErrors
        /\ _currentNode[lastOp.target] = lastOp.before.currentNode
        /\ sent[lastOp.target] = <<>>

\* the last operation was a move from one engine into another
MovedInto ==
    /\ lastOp.op \in {"move constructor", "move assignment"}
    /\ lastOp.target # lastOp.source

\* the four handles, all null
NullHandles ==
    [image |-> NullImage, currentNode |-> NullNode,
     rootNode |-> NullNode, chatLogic |-> NullLogic]

\* C12: after a move construction or move assignment from a source into a
\* different target, the target holds the four handles the source held
\* before, and the four handles of the source are null.
C12_MoveSemantics ==
    MovedInto =>
        /\ Handles(lastOp.target) = lastOp.before
        /\ Handles(lastOp.source) = NullHandles

\* engine A, holding an image and positioned at the root, was moved into B
C12_Witness ==
    /\ MovedInto
    /\ lastOp.source = "A" /\ lastOp.target = "B"
    /\ lastOp.before.image \in Images
    /\ lastOp.before.currentNode = Root
    /\ lastOp.before.chatLogic = TheChatLogic
    /\ _image["B"] = lastOp.before.image
    /\ _image["A"] = NullImage

\* the last operation was a copy from one engine into another
CopiedInto ==
    /\ lastOp.op \in {"copy constructor", "copy assignment"}
    /\ lastOp.target # lastOp.source

\* C13: a copy construction or copy assignment leaves every handle of the
\* source as it was and gives the target an image allocation of its own,
\* different from the source's and not deleted.
C13_CopySemantics ==
    CopiedInto =>
        /\ Handles(lastOp.source) = lastOp.before
        /\ _image[lastOp.target] \in Images
        /\ _image[lastOp.target] # _image[lastOp.source]
        /\ imageHeap[_image[lastOp.target]] = "allocated"

(***************************************************************************)
(* Properties of the turn, checked under Spec and SpecTwoRuns.             *)
(***************************************************************************)
\* the step is a turn or an entry of engine e
StepOf(e) ==
    /\ lastOp' # lastOp \/ vars' # vars
    /\ lastOp'.op \in {"receive", "initialize"}
    /\ lastOp'.target = e

\* C14: a turn of an engine and its arrival at a node leave the graph, the
\* image and ChatLogic handles and every other engine as they were; a turn
\* leaves the root node of its engine as it was, too.
C14_TurnFrame ==
    [][\A e \in Engines :
          StepOf(e) =>
              /\ graphVars' = graphVars
              /\ _image' = _image
              /\ lastOp'.op = "receive" => _rootNode' = _rootNode /\ _chatLogic' = _chatLogic
              /\ \A o \in Engines \ {e} :
                    /\ _currentNode'[o] = _currentNode[o]
                    /\ _rootNode'[o] = _rootNode[o]
                    /\ _chatLogic'[o] = _chatLogic[o]]_vars

\* engine A has moved from the root to n1 in a turn; engine B, entered
\* before on the same graph, is still at the root
C14_Witness ==
    /\ lastOp.op = "receive" /\ lastOp.target = "A"
    /\ lastOp.before.currentNode = Root
    /\ _currentNode["A"] = "n1"
    /\ _rootNode["A"] = Root
    /\ _currentNode["B"] = Root

\* the child edges of node n that carry no keyword
HasNoKeyword(n, i) == Len(childEdges[n][i].keywords) = 0

\* C15: a turn never selects a child edge without keyword; from a node whose
\* child edges all are without keyword it moves the engine to the root.
C15_ZeroKeywordNeverSelected ==
    \A e \in Engines :
        HasTurn(e) =>
            /\ lastEdge[e] # 0 => ~HasNoKeyword(lastFrom[e], lastEdge[e])
            /\ (\A i \in 1..Len(childEdges[lastFrom[e]]) : HasNoKeyword(lastFrom[e], i))
                  => lastEdge[e] = 0 /\ _currentNode[e] = _rootNode[e]

\* a turn from the root, whose two child edges are without keyword and lead
\* to n1, has moved the engine to the root and sent an answer
C15_Witness ==
    /\ HasTurn("A")
    /\ lastFrom["A"] = Root
    /\ Len(childEdges[Root]) = 2
    /\ \A i \in 1..2 : HasNoKeyword(Root, i) /\ childEdges[Root][i].childNode = "n1"
    /\ lastEdge["A"] = 0
    /\ _currentNode["A"] = Root
    /\ outcome["A"] = "ok"

\* the nodes the child edges of node n lead to
Successors(n) == {childEdges[n][i].childNode : i \in 1..Len(childEdges[n])}

\* the nodes reachable from the nodes of S along child edges
RECURSIVE Closure(_)
Closure(S) ==
    LET T == S \cup UNION {Successors(n) : n \in S}
    IN  IF T = S THEN S ELSE Closure(T)

ReachableFromRoot == Closure({Root})

\* every node reachable from the root has an answer
WellFormed == \A n \in ReachableFromRoot : Len(answers[n]) > 0

\* C16: on a well-formed graph the entered engine never stops: its last
\* operation, a turn with any message included, has run to completion and
\* sent its answer, and a further turn is enabled.
C16_NoTerminalState ==
    (WellFormed /\ Arrived("A")) =>
        /\ outcome["A"] = "ok"
        /\ Len(sent["A"]) = 1
        /\ ENABLED Turn

\* on a well-formed graph a turn from the leaf n1 has run to completion
C16_Witness ==
    /\ WellFormed
    /\ HasTurn("A")
    /\ lastFrom["A"] = "n1"
    /\ Len(childEdges["n1"]) = 0
    /\ outcome["A"] = "ok"
    /\ Len(sent["A"]) = 1

\* engine e has been initialised at the root
Initialised(e) == _rootNode[e] = Root

\* C17: on a well-formed graph the current node of an initialised engine is
\* a node reachable from the root, and after a turn it is the root or the
\* node a child edge of the previous current node leads to.
C17_PositionInvariant ==
    \A e \in Engines :
        (WellFormed /\ Initialised(e)) =>
            /\ _currentNode[e] \in ReachableFromRoot
            /\ HasTurn(e) =>
                  \/ _currentNode[e] = Root
                  \/ _currentNode[e] \in Successors(lastFrom[e])

\* on a well-formed graph a turn has moved the engine from the root along
\* its second child edge to n1
C17_Witness ==
    /\ WellFormed
    /\ HasTurn("A")
    /\ lastFrom["A"] = Root
    /\ lastEdge["A"] = 2
    /\ _currentNode["A"] = "n1"
    /\ childEdges[Root][2].childNode = "n1"

(***************************************************************************)
(* Properties of the heap, checked under SpecRuleOfFive, and of the turn   *)
(* of a copy, checked under SpecCopyTurn.                                  *)
(***************************************************************************)
\* C18: no two live instances hold the same non-null image handle, and no
\* image is deleted more than once.
C18_SingleOwnership ==
    /\ \A e1 \in Engines, e2 \in Engines :
          (e1 # e2 /\ live[e1] /\ live[e2] /\ _image[e1] # NullImage)
              => _image[e1] # _image[e2]
    /\ \A i \in Images : imageHeap[i] # "deletedTwice"

\* after the destruction of an instance that held an image, the image of one
\* live instance was moved into the other by a move assignment
C18_Witness ==
    /\ \A e \in Engines : live[e]
    /\ \E i \in Images : imageHeap[i] = "deleted"
    /\ lastOp.op = "move assignment" /\ lastOp.target # lastOp.source
    /\ lastOp.before.image \in Images
    /\ _image[lastOp.target] = lastOp.before.image
    /\ imageHeap[_image[lastOp.target]] = "allocated"

\* C19: every image that is allocated and not deleted is held by a live
\* instance, and so is every GraphNode the copy operations have allocated
\* (no ChatBot operation deletes one); with no live instance nothing is left
\* allocated.
C19_NoLeak ==
    /\ \A i \in Images :
          imageHeap[i] = "allocated" => \E e \in Engines : live[e] /\ _image[e] = i
    /\ \A h \in HeapNodes :
          nodeId[h] # NoId =>
              \E e \in Engines : live[e] /\ (_currentNode[e] = h \/ _rootNode[e] = h)

\* the id of the node p points to
IdOf(p) == IF p \in AllNodes THEN GetID(p) ELSE p

\* the last turn of t started from a copy of the node the last turn of s
\* started from, with the same message
TurnOfCopy(t, s) ==
    /\ HasTurn(s) /\ HasTurn(t)
    /\ lastFrom[s] \in Nodes
    /\ lastFrom[t] \in HeapNodes
    /\ GetID(lastFrom[t]) = lastFrom[s]
    /\ lastMsg[t] = lastMsg[s]

\* C20: the turn of a copy selects the node the same turn of the source
\* selects: both end at nodes of the same id, and both end the same way.
C20_CopyEquivalence ==
    \A s \in Engines, t \in Engines :
        TurnOfCopy(t, s) =>
            /\ IdOf(_currentNode[t]) = IdOf(_currentNode[s])
            /\ outcome[t] = outcome[s]

====
